---- MODULE Spec2Model ----
(***************************************************************************)
(* A model of JobMatcher (src/jobmatch_app.py): text preprocessing, the    *)
(* four sub-scores, the weighted final score and the ranking done by       *)
(* match_jobs.                                                             *)
(*                                                                         *)
(* Text is a sequence of one-character strings, so that substring tests,   *)
(* whitespace splitting and the regular expressions of the source are      *)
(* computed character by character.  Floating-point scores are fixed-point *)
(* integers: a sub-score s is the integer s * Unit, a final score f is the *)
(* integer f * 100 * Unit (weights are in percent), quotients round down.  *)
(***************************************************************************)
EXTENDS Integers, Sequences, FiniteSets, TLC

(***************************************************************************)
(* Bounds of the model.                                                    *)
(***************************************************************************)
\* longest posting collection handed to match_jobs
MaxJobs == 3
\* largest candidate experience (years) handed to match_jobs
MaxExp == 8

(***************************************************************************)
(* Characters and Python's str / re primitives.                            *)
(***************************************************************************)
UpperSeq == <<"A","B","C","D","E","F","G","H","I","J","K","L","M",
              "N","O","P","Q","R","S","T","U","V","W","X","Y","Z">>
LowerSeq == <<"a","b","c","d","e","f","g","h","i","j","k","l","m",
              "n","o","p","q","r","s","t","u","v","w","x","y","z">>
Digits == <<"0","1","2","3","4","5","6","7","8","9">>

Range(f) == {f[k] : k \in DOMAIN f}

SetMin(S) == CHOOSE x \in S : \A y \in S : x <= y
SetMax(S) == CHOOSE x \in S : \A y \in S : x >= y

IsUpper(c) == c \in Range(UpperSeq)
IsLower(c) == c \in Range(LowerSeq)
IsDigit(c) == c \in Range(Digits)
\* \s
IsSpace(c) == c \in {" ", "\t", "\n"}
\* \w
IsWordChar(c) == IsUpper(c) \/ IsLower(c) \/ IsDigit(c) \/ c = "_"

LowerChar(c) ==
    IF IsUpper(c) THEN LowerSeq[CHOOSE k \in DOMAIN UpperSeq : UpperSeq[k] = c]
    ELSE c

\* str.lower()
lower(s) == [k \in 1..Len(s) |-> LowerChar(s[k])]

\* Python's "sub in s"
Contains(sub, s) ==
    \E k \in 0..(Len(s) - Len(sub)) : SubSeq(s, k + 1, k + Len(sub)) = sub

\* the literal lit stands in s at position p (1-based)
LitAt(lit, s, p) ==
    /\ p >= 1
    /\ p + Len(lit) - 1 <= Len(s)
    /\ SubSeq(s, p, p + Len(lit) - 1) = lit

\* set(s.split()): the maximal runs of non-whitespace characters
SplitSet(s) ==
    {SubSeq(s, a, b) : <<a, b>> \in
        {ab \in (1..Len(s)) \X (1..Len(s)) :
            /\ ab[1] <= ab[2]
            /\ \A k \in ab[1]..ab[2] : ~IsSpace(s[k])
            /\ (ab[1] = 1 \/ IsSpace(s[ab[1] - 1]))
            /\ (ab[2] = Len(s) \/ IsSpace(s[ab[2] + 1]))}}

\* " ".join(list)
RECURSIVE JoinSpace(_)
JoinSpace(list) ==
    IF list = <<>> THEN <<>>
    ELSE IF Len(list) = 1 THEN list[1]
    ELSE list[1] \o <<" ">> \o JoinSpace(Tail(list))

\* int(digits)
RECURSIVE ParseInt(_)
ParseInt(ds) ==
    IF ds = <<>> THEN 0
    ELSE 10 * ParseInt(SubSeq(ds, 1, Len(ds) - 1))
         + ((CHOOSE k \in DOMAIN Digits : Digits[k] = ds[Len(ds)]) - 1)

\* faulty variant: the patterns are written without \b
WordBoundaryNone(s, p) == TRUE

\* \b at the gap before position p of s
WordBoundary(s, p) ==
    LET before == p > 1 /\ p - 1 <= Len(s) /\ IsWordChar(s[p - 1])
        after  == p >= 1 /\ p <= Len(s) /\ IsWordChar(s[p])
    IN  before # after

\* re.sub(r'[^a-zA-Z0-9\s]', ' ', s)
StripSpecial(s) ==
    [k \in 1..Len(s) |->
        IF IsUpper(s[k]) \/ IsLower(s[k]) \/ IsDigit(s[k]) \/ IsSpace(s[k])
        THEN s[k] ELSE " "]

\* the alternatives of \b(alt1|alt2|...)\b that match at position p
AltsAt(alts, s, p) ==
    {a \in DOMAIN alts :
        /\ LitAt(alts[a], s, p)
        /\ WordBoundary(s, p)
        /\ WordBoundary(s, p + Len(alts[a]))}

\* re.sub(r'\b(alt1|alt2|...)\b', rep, s) from position p on: the leftmost
\* match is replaced, by its first alternative that matches, and the scan
\* resumes behind it
RECURSIVE SubWordFrom(_, _, _, _)
SubWordFrom(alts, rep, s, p) ==
    LET at == {q \in p..Len(s) : AltsAt(alts, s, q) # {}}
    IN  IF at = {} THEN SubSeq(s, p, Len(s))
        ELSE SubSeq(s, p, SetMin(at) - 1) \o rep
             \o SubWordFrom(alts, rep, s,
                    SetMin(at) + Len(alts[SetMin(AltsAt(alts, s, SetMin(at)))]))

SubWord(alts, rep, s) == SubWordFrom(alts, rep, s, 1)


(***************************************************************************)
(* JobMatcher.__init__: the category weights (in tenths) and the fixed     *)
(* skill vocabulary.                                                       *)
(***************************************************************************)
\* one sub-score unit: the float 1.0
Unit == 10 * 10 * 10

\* iteration order of self.skill_weights
Categories == <<"technical", "soft", "domain", "certification">>

\* self.skill_weights, in tenths: 1.5, 1.2, 1.3, 1.4
skill_weights ==
    [technical |-> 15, soft |-> 12, domain |-> 13, certification |-> 14]

\* self.skill_categories
skill_categories ==
    [technical |-> {
        <<"p","y","t","h","o","n">>,
        <<"j","a","v","a">>,
        <<"s","q","l">>,
        <<"a","w","s">>,
        <<"a","z","u","r","e">>,
        <<"d","o","c","k","e","r">>,
        <<"k","u","b","e","r","n","e","t","e","s">>,
        <<"r","e","a","c","t">>,
        <<"j","a","v","a","s","c","r","i","p","t">>,
        <<"m","a","c","h","i","n","e"," ","l","e","a","r","n","i","n","g">>,
        <<"d","a","t","a"," ","a","n","a","l","y","s","i","s">>},
     soft |-> {
        <<"l","e","a","d","e","r","s","h","i","p">>,
        <<"c","o","m","m","u","n","i","c","a","t","i","o","n">>,
        <<"t","e","a","m","w","o","r","k">>,
        <<"p","r","o","b","l","e","m"," ","s","o","l","v","i","n","g">>,
        <<"p","r","o","j","e","c","t"," ","m","a","n","a","g","e","m","e","n","t">>,
        <<"a","g","i","l","e">>,
        <<"s","c","r","u","m">>},
     domain |-> {
        <<"h","e","a","l","t","h","c","a","r","e">>,
        <<"f","i","n","a","n","c","e">>,
        <<"m","a","r","k","e","t","i","n","g">>,
        <<"s","a","l","e","s">>,
        <<"c","o","n","s","u","l","t","i","n","g">>,
        <<"m","a","n","u","f","a","c","t","u","r","i","n","g">>,
        <<"r","e","t","a","i","l">>,
        <<"e","d","u","c","a","t","i","o","n">>},
     certification |-> {
        <<"p","m","p">>,
        <<"a","w","s"," ","c","e","r","t","i","f","i","e","d">>,
        <<"c","i","s","s","p">>,
        <<"c","p","a">>,
        <<"s","i","x"," ","s","i","g","m","a">>,
        <<"s","c","r","u","m"," ","m","a","s","t","e","r">>,
        <<"p","r","o","f","e","s","s","i","o","n","a","l"," ","c","e","r","t","i","f","i","e","d">>}]


(***************************************************************************)
(* JobMatcher.preprocess_text                                              *)
(***************************************************************************)
\* the replacements dict, in insertion order; "yrs?" is the alternatives
\* yrs, yr in the order the regex engine tries them
replacements == <<
    [alts |-> <<<<"y","r","s">>, <<"y","r">>, <<"y","e","a","r","s">>>>,
     rep |-> <<"y","e","a","r","s">>],
    [alts |-> <<<<"s","r",".">>, <<"s","e","n","i","o","r">>>>,
     rep |-> <<"s","e","n","i","o","r">>],
    [alts |-> <<<<"j","r",".">>, <<"j","u","n","i","o","r">>>>,
     rep |-> <<"j","u","n","i","o","r">>],
    [alts |-> <<<<"e","x","p">>, <<"e","x","p","e","r","i","e","n","c","e">>>>,
     rep |-> <<"e","x","p","e","r","i","e","n","c","e">>],
    [alts |-> <<<<"d","e","v">>, <<"d","e","v","e","l","o","p","e","r">>>>,
     rep |-> <<"d","e","v","e","l","o","p","e","r">>],
    [alts |-> <<<<"e","n","g">>, <<"e","n","g","i","n","e","e","r">>>>,
     rep |-> <<"e","n","g","i","n","e","e","r">>],
    [alts |-> <<<<"m","g","r">>, <<"m","a","n","a","g","e","r">>>>,
     rep |-> <<"m","a","n","a","g","e","r">>]>>

RECURSIVE ApplyReplacements(_, _)
ApplyReplacements(text, k) ==
    IF k > Len(replacements) THEN text
    ELSE ApplyReplacements(
            SubWord(replacements[k].alts, replacements[k].rep, text), k + 1)

preprocess_text(text) == ApplyReplacements(StripSpecial(lower(text)), 1)

(***************************************************************************)
(* JobMatcher.calculate_skill_match_score                                  *)
(***************************************************************************)
\* relevant_skills of one category: a set, so equal strings collapse
RelevantSkills(resume_skills, category) ==
    {resume_skills[k] : k \in
        {x \in DOMAIN resume_skills :
            lower(resume_skills[x]) \in skill_categories[category]}}

\* matched_skills of one category
MatchedSkills(resume_skills, category, job_text) ==
    Cardinality({skill \in RelevantSkills(resume_skills, category) :
                    Contains(lower(skill), lower(job_text))})

\* the categories in which the candidate has a skill
RelevantCategories(resume_skills) ==
    {c \in Range(Categories) : RelevantSkills(resume_skills, c) # {}}

RECURSIVE Product(_, _)
Product(f, S) ==
    IF S = {} THEN 1
    ELSE LET x == CHOOSE y \in S : TRUE IN f[x] * Product(f, S \ {x})

RECURSIVE Sum(_, _)
Sum(f, S) ==
    IF S = {} THEN 0
    ELSE LET x == CHOOSE y \in S : TRUE IN f[x] + Sum(f, S \ {x})

\* faulty variant: every category adds its weight to total_weight, the
\* candidate having a skill in it or not
SkillWeightsAllCategories(resume_skills, job_text) ==
    LET cats == RelevantCategories(resume_skills)
        n    == [c \in cats |-> Cardinality(RelevantSkills(resume_skills, c))]
        den  == Product(n, cats)
        tot  == [c \in Range(Categories) |-> skill_weights[c] * den]
        mat  == [c \in cats |->
                    MatchedSkills(resume_skills, c, job_text)
                    * skill_weights[c] * (den \div n[c])]
    IN  [total_weight |-> Sum(tot, Range(Categories)),
         matched_weight |-> Sum(mat, cats)]

\* total_weight and matched_weight as exact fractions over the common
\* denominator 10 * (product of the len(relevant_skills))
SkillWeights(resume_skills, job_text) ==
    LET cats == RelevantCategories(resume_skills)
        n    == [c \in cats |-> Cardinality(RelevantSkills(resume_skills, c))]
        den  == Product(n, cats)
        tot  == [c \in cats |-> skill_weights[c] * den]
        mat  == [c \in cats |->
                    MatchedSkills(resume_skills, c, job_text)
                    * skill_weights[c] * (den \div n[c])]
    IN  [total_weight |-> Sum(tot, cats), matched_weight |-> Sum(mat, cats)]

calculate_skill_match_score(resume_skills, job_text) ==
    LET w == SkillWeights(resume_skills, job_text)
    IN  IF w.total_weight > 0
        THEN (w.matched_weight * Unit) \div w.total_weight
        ELSE 0

(***************************************************************************)
(* JobMatcher.calculate_experience_match                                   *)
(***************************************************************************)
Word_year == <<"y","e","a","r">>
Word_of == <<"o","f">>
Word_experience == <<"e","x","p","e","r","i","e","n","c","e">>
Word_senior == <<"s","e","n","i","o","r">>
Word_level == <<"l","e","v","e","l">>
Word_mid == <<"m","i","d">>
Word_junior == <<"j","u","n","i","o","r">>
Word_entry == <<"e","n","t","r","y">>
Word_remote == <<"r","e","m","o","t","e">>

\* The three patterns, matched at a given position p of t.  A greedy \d+ or
\* \s* takes its whole run and an optional piece is taken when it is there:
\* in these patterns the piece that follows never starts with a character
\* the run or the optional piece could give back, so backtracking changes
\* nothing.  A position is the index of the next character to read; 0
\* stands for "no match".
\* the end of the run of digits that starts at p (p itself: no digit)
DigitsEnd(t, p) ==
    SetMin({j \in p..(Len(t) + 1) : j = Len(t) + 1 \/ ~IsDigit(t[j])})
\* the end of the run of whitespace that starts at p
SpacesEnd(t, p) ==
    SetMin({j \in p..(Len(t) + 1) : j = Len(t) + 1 \/ ~IsSpace(t[j])})
\* lit?  at p (0 stays 0)
OptLitEnd(lit, t, p) == IF LitAt(lit, t, p) THEN p + Len(lit) ELSE p
\* lit  at p
LitEnd(lit, t, p) == IF LitAt(lit, t, p) THEN p + Len(lit) ELSE 0
\* the least element of a set of positions, 0 for the empty set
MinOrZero(S) == IF S = {} THEN 0 ELSE SetMin(S)

\* \s*years?  at p
YearsEnd(t, p) ==
    OptLitEnd(<<"s">>, t, LitEnd(Word_year, t, SpacesEnd(t, p)))

\* \d+\s*years?  at b, where the run of digits at b ends at e
DigitsYearsEnd(t, b, e) == IF e > b THEN YearsEnd(t, e) ELSE 0

\* (?:-\s*\d+)?\s*years?  at a, where no whitespace is left to skip
RangeYearsEnd(t, a) ==
    IF LitAt(<<"-">>, t, a)
    THEN DigitsYearsEnd(t, SpacesEnd(t, a + 1),
                        DigitsEnd(t, SpacesEnd(t, a + 1)))
    ELSE YearsEnd(t, a)

\* what follows the captured (\d+) of pattern 1:
\* \+?\s*(?:-\s*\d+)?\s*years?
Rest1End(t, p) == RangeYearsEnd(t, SpacesEnd(t, OptLitEnd(<<"+">>, t, p)))

\* \s*(?:of)?\s*experience  at a, the end of a match of \s*years? or 0
OfExperienceEnd(t, a) ==
    IF a = 0 THEN 0
    ELSE LitEnd(Word_experience, t,
                SpacesEnd(t, OptLitEnd(Word_of, t, SpacesEnd(t, a))))

\* what follows the captured (\d+) of pattern 2:
\* \s*years?\s*(?:of)?\s*experience
Rest2End(t, p) == OfExperienceEnd(t, YearsEnd(t, p))

\* what follows the captured (\d+) of pattern n
RestEnd(n, t, p) ==
    IF n = 1 THEN Rest1End(t, p)
    ELSE IF n = 2 THEN Rest2End(t, p)
    ELSE YearsEnd(t, p)

\* (\d+) and what follows it, at p
DigitsThen(n, t, p) ==
    /\ p <= Len(t)
    /\ IsDigit(t[p])
    /\ RestEnd(n, t, DigitsEnd(t, p)) # 0

\* .*?(\d+)\s*years?  at b: the lazy .*? stops at the first place, with no
\* newline before it, where the rest matches
LazyDigitsYears(t, b) ==
    MinOrZero({j \in b..Len(t) :
                 /\ DigitsThen(3, t, j)
                 /\ \A k \in b..(j - 1) : t[k] # "\n"})

\* level.*?(\d+)\s*years?  at a: where group 1 begins, or 0
LevelCapture(t, a) ==
    IF LitAt(Word_level, t, a)
    THEN LazyDigitsYears(t, a + Len(Word_level)) ELSE 0

\* where group 1 of a match of pattern n that starts at p begins, or 0;
\* pattern 3 is senior\s*level.*?(\d+)\s*years?
CaptureStart(n, t, p) ==
    IF p = 0 THEN 0
    ELSE IF n # 3 THEN (IF DigitsThen(n, t, p) THEN p ELSE 0)
    ELSE IF LitAt(Word_senior, t, p)
    THEN LevelCapture(t, SpacesEnd(t, p + Len(Word_senior))) ELSE 0

\* int(match.group(1)) for the group that begins at s; -1 when s is 0
GroupInt(t, s) ==
    IF s = 0 THEN -1 ELSE ParseInt(SubSeq(t, s, DigitsEnd(t, s) - 1))

\* int(match.group(1)) of re.search(pattern n, t), the leftmost match, or
\* -1 when nothing matches
SearchYears(n, t) ==
    GroupInt(t, CaptureStart(n, t,
        MinOrZero({p \in 1..Len(t) : CaptureStart(n, t, p) # 0})))

\* the first element of a sequence that is not -1, else -1
FirstFound(found) ==
    IF \A n \in DOMAIN found : found[n] = -1 THEN -1
    ELSE found[SetMin({n \in DOMAIN found : found[n] # -1})]

\* the years a level mention in t stands for; -1 stands for None
LevelYears(t) ==
    IF Contains(Word_senior, t) THEN 5
    ELSE IF Contains(Word_mid, t) THEN 3
    ELSE IF Contains(Word_junior, t) \/ Contains(Word_entry, t) THEN 0
    ELSE -1

\* years when a pattern matched, else the years of the level mention
YearsOrLevel(years, t) == IF years # -1 THEN years ELSE LevelYears(t)

\* faulty variant: a level mention decides before a stated year count
LevelOrYears(years, t) ==
    IF LevelYears(t) # -1 THEN LevelYears(t) ELSE years

\* the patterns tried in order on the lowercased job text t
PatternYears(t) ==
    FirstFound(<<SearchYears(1, t), SearchYears(2, t), SearchYears(3, t)>>)

\* required_exp of the lowercased job text t
RequiredIn(t) == YearsOrLevel(PatternYears(t), t)

\* faulty variant: a level mention decides before a stated year count
RequiredExpLevelFirst(job_text) ==
    LevelOrYears(PatternYears(lower(job_text)), lower(job_text))

\* required_exp: the first pattern that matches, else the level mentions;
\* -1 stands for None
RequiredExp(job_text) == RequiredIn(lower(job_text))

Abs(x) == IF x < 0 THEN -x ELSE x

\* faulty variant: the difference keeps its sign
ExperienceDiffSigned(user_experience, required_exp) ==
    user_experience - required_exp

\* diff
ExperienceDiff(user_experience, required_exp) ==
    Abs(user_experience - required_exp)

\* the score of a candidate diff years off the required experience
DiffScore(diff) ==
    IF diff = 0 THEN Unit
    ELSE IF diff <= 2 THEN (8 * Unit) \div 10
    ELSE IF diff <= 4 THEN (6 * Unit) \div 10
    ELSE (4 * Unit) \div 10

\* the score of a candidate against the required experience found
ExperienceScore(user_experience, required_exp) ==
    IF required_exp = -1 THEN (5 * Unit) \div 10
    ELSE DiffScore(ExperienceDiff(user_experience, required_exp))

calculate_experience_match(user_experience, job_text) ==
    ExperienceScore(user_experience, RequiredExp(job_text))

(***************************************************************************)
(* JobMatcher.calculate_location_match                                     *)
(***************************************************************************)
\* faulty variant: a remote posting is recognised before a shared token
calculate_location_match_remote_first(preferred_location, job_location) ==
    LET preferred == lower(preferred_location)
        actual    == lower(job_location)
    IN  IF Contains(preferred, actual) \/ Contains(actual, preferred)
        THEN Unit
        ELSE IF Contains(Word_remote, actual)
        THEN (7 * Unit) \div 10
        ELSE IF SplitSet(preferred) \cap SplitSet(actual) # {}
        THEN (8 * Unit) \div 10
        ELSE (3 * Unit) \div 10

calculate_location_match(preferred_location, job_location) ==
    LET preferred == lower(preferred_location)
        actual    == lower(job_location)
    IN  IF Contains(preferred, actual) \/ Contains(actual, preferred)
        THEN Unit
        ELSE IF SplitSet(preferred) \cap SplitSet(actual) # {}
        THEN (8 * Unit) \div 10
        ELSE IF Contains(Word_remote, actual)
        THEN (7 * Unit) \div 10
        ELSE (3 * Unit) \div 10

(***************************************************************************)
(* self.vectorizer: TfidfVectorizer(stop_words="english",                  *)
(* ngram_range=(1, 2), max_features=5000, min_df=2), fitted on the two     *)
(* documents [resume_text, job_text] of one candidate/posting pair.        *)
(***************************************************************************)
\* the words of the "english" stop list that are at least two characters
\* long and occur in the texts of this model
StopWords == {<<"a","t">>, <<"i","n">>, <<"o","f">>, <<"n","o","t">>,
              <<"a","n","d">>, <<"t","h","e">>, <<"s","i","x">>}

\* the analyzer's tokens: lowercased maximal runs of two or more word
\* characters (token_pattern \b\w\w+\b), in order
RECURSIVE TokensFrom(_, _)
TokensFrom(s, p) ==
    LET words == {q \in p..Len(s) : IsWordChar(s[q])}
    IN  IF words = {} THEN <<>>
        ELSE LET b == SetMin(words)
                 e == SetMax({j \in b..Len(s) :
                                \A k \in b..j : IsWordChar(s[k])})
             IN  IF e > b THEN <<SubSeq(s, b, e)>> \o TokensFrom(s, e + 1)
                 ELSE TokensFrom(s, e + 1)

Tokens(doc) == SelectSeq(TokensFrom(lower(doc), 1), LAMBDA w : w \notin StopWords)

\* the unigrams, then the bigrams of adjacent tokens (ngram_range=(1, 2))
Terms(doc) ==
    LET tk == Tokens(doc)
    IN  tk \o [k \in 1..(Len(tk) - 1) |-> tk[k] \o <<" ">> \o tk[k + 1]]

\* term frequency of a term in a document
TermCount(term, doc) ==
    LET ts == Terms(doc) IN Cardinality({k \in DOMAIN ts : ts[k] = term})

\* the vocabulary learned from the two documents: min_df=2 keeps the terms
\* that occur in both (max_features=5000 is never reached by two short
\* documents)
Vocabulary(resume_text, job_text) ==
    Range(Terms(resume_text)) \cap Range(Terms(job_text))

\* the count matrix of the two documents over a vocabulary
CountMatrix(vocabulary, resume_text, job_text) ==
    [vocabulary |-> vocabulary,
     a |-> [t \in vocabulary |-> TermCount(t, resume_text)],
     b |-> [t \in vocabulary |-> TermCount(t, job_text)]]

\* cosine_similarity of the two rows: every kept term has document
\* frequency 2, so its idf is ln(3/3) + 1 = 1 and a row is its counts,
\* L2-normalised; a zero row has similarity 0
Cosine(X) ==
    LET dot == Sum([t \in X.vocabulary |-> X.a[t] * X.b[t]], X.vocabulary)
        na  == Sum([t \in X.vocabulary |-> X.a[t] * X.a[t]], X.vocabulary)
        nb  == Sum([t \in X.vocabulary |-> X.b[t] * X.b[t]], X.vocabulary)
    IN  IF na * nb = 0 THEN 0
        ELSE CHOOSE c \in 0..Unit :
                /\ c * c * na * nb <= dot * dot * Unit * Unit
                /\ (c + 1) * (c + 1) * na * nb > dot * dot * Unit * Unit

\* the vectorizer before any fit
Unfitted == [fitted |-> FALSE, vocabulary |-> {}]

\* what one fit_transform call computes from its own two documents: the
\* pruned vocabulary and the similarity of the two rows of its matrix
Analyse(resume_text, job_text) ==
    LET v == Vocabulary(resume_text, job_text)
    IN  [vocabulary |-> v,
         cosine     |-> Cosine(CountMatrix(v, resume_text, job_text))]

\* faulty variant: a vectorizer that is fitted already is not fitted again
VectorizerFitOnce(vec, X) ==
    IF vec.fitted THEN {vec}
    ELSE IF X.vocabulary = {} THEN {vec, Unfitted}
    ELSE {[fitted |-> TRUE, vocabulary |-> X.vocabulary]}

\* the fitting half of self.vectorizer.fit_transform: the states it can
\* leave in self.vectorizer.  A fit that raises ValueError (no term is left)
\* leaves the earlier fit in place or, where the library replaces its idf
\* transformer before it counts, nothing fitted.
VectorizerFit(vec, X) ==
    IF X.vocabulary = {} THEN {vec, Unfitted}
    ELSE {[fitted |-> TRUE, vocabulary |-> X.vocabulary]}

\* the transforming half: this call's matrix weighted by the idf vector
\* self.vectorizer holds at that time; -1 when it raises.  It is not
\* reached when the fit raised, it raises when nothing is fitted or the idf
\* vector is shorter than the matrix is wide, and with a longer vector it
\* raises or not (a dimension check, or indexing by column).
VectorizerTransform(vec, X) ==
    IF X.vocabulary = {} THEN {-1}
    ELSE IF ~vec.fitted THEN {-1}
    ELSE IF Cardinality(vec.vocabulary) = Cardinality(X.vocabulary)
    THEN {X.cosine}
    ELSE IF Cardinality(vec.vocabulary) < Cardinality(X.vocabulary)
    THEN {-1}
    ELSE {-1, X.cosine}

\* faulty variant: the failure is not turned into a content score of 0
ContentScoreUnhandled(transformed) == transformed

\* the try/except of match_jobs around the similarity: content_score
ContentScore(transformed) == IF transformed = -1 THEN 0 ELSE transformed

(***************************************************************************)
(* JobMatcher.match_jobs: the final weighted score                         *)
(***************************************************************************)
\* weights, in percent
weight_skill == 40
weight_experience == 25
weight_location == 15
weight_content == 20

\* the float 1.0 on the scale of a final score
One == 100 * Unit

Min(a, b) == IF a <= b THEN a ELSE b

\* faulty variant: a base score of 0.25 is added behind the clamp
FinalScoreBase(skill_score, exp_score, location_score, content_score) ==
    Min(One, skill_score * weight_skill
             + exp_score * weight_experience
             + location_score * weight_location
             + content_score * weight_content) + 25 * Unit

\* faulty variant: the score is floored at 0.25
FinalScoreFloor(skill_score, exp_score, location_score, content_score) ==
    LET final_score == skill_score * weight_skill
                       + exp_score * weight_experience
                       + location_score * weight_location
                       + content_score * weight_content
    IN  IF final_score < 25 * Unit THEN 25 * Unit ELSE Min(One, final_score)

\* job.similarity = min(1.0, final_score)
FinalScore(skill_score, exp_score, location_score, content_score) ==
    Min(One, skill_score * weight_skill
             + exp_score * weight_experience
             + location_score * weight_location
             + content_score * weight_content)

\* f"{job.title} {job.company} {job.location} {job.experience}", preprocessed
JobText(job) ==
    preprocess_text(job.title \o <<" ">> \o job.company \o <<" ">>
                    \o job.location \o <<" ">> \o job.experience)

(***************************************************************************)
(* The inputs of match_jobs the model draws from.                          *)
(***************************************************************************)
\* postings as the scraper builds them (similarity is the dataclass default
\* 0.0); the second differs from the first in posted_date only, the fifth
\* names a level and a year count
Postings == <<
    [title |-> <<"S","e","n","i","o","r"," ","P","y","t","h","o","n"," ","D","e","v">>,
     company |-> <<"A","c","m","e">>,
     location |-> <<"R","e","m","o","t","e">>,
     link |-> "l1", posted_date |-> "2024-01-01",
     experience |-> <<"s","e","n","i","o","r">>,
     preference |-> "Remote", similarity |-> 0],
    [title |-> <<"S","e","n","i","o","r"," ","P","y","t","h","o","n"," ","D","e","v">>,
     company |-> <<"A","c","m","e">>,
     location |-> <<"R","e","m","o","t","e">>,
     link |-> "l1", posted_date |-> "2024-01-02",
     experience |-> <<"s","e","n","i","o","r">>,
     preference |-> "Remote", similarity |-> 0],
    [title |-> <<"M","i","d","-","l","e","v","e","l"," ","J","a","v","a"," ","E","n","g">>,
     company |-> <<"I","n","i","t","e","c","h">>,
     location |-> <<"N","e","w"," ","Y","o","r","k",","," ","N","Y">>,
     link |-> "l3", posted_date |-> "2024-01-03",
     experience |-> <<"m","i","d","-","l","e","v","e","l">>,
     preference |-> "Onsite", similarity |-> 0],
    [title |-> <<"E","n","t","r","y"," ","S","Q","L"," ","P","y","t","h","o","n"," ","A","n","a","l","y","s","t">>,
     company |-> <<"P","y","t","h","o","n"," ","L","a","b","s">>,
     location |-> <<"B","o","s","t","o","n">>,
     link |-> "l4", posted_date |-> "2024-01-04",
     experience |-> <<"e","n","t","r","y","-","l","e","v","e","l">>,
     preference |-> "Hybrid", similarity |-> 0],
    [title |-> <<"S","e","n","i","o","r"," ","D","a","t","a"," ","E","n","g"," ","3","+"," ","y","r","s">>,
     company |-> <<"H","o","o","l","i">>,
     location |-> <<"J","e","r","s","e","y"," ","C","i","t","y">>,
     link |-> "l5", posted_date |-> "2024-01-05",
     experience |-> <<"E","x","p","e","r","i","e","n","c","e"," ","n","o","t"," ","s","p","e","c","i","f","i","e","d">>,
     preference |-> "Onsite", similarity |-> 0],
    [title |-> <<"S","a","l","e","s"," ","M","a","n","a","g","e","r">>,
     company |-> <<"U","m","b","r","e","l","l","a">>,
     location |-> <<"R","e","m","o","t","e"," ","-"," ","N","e","w"," ","J","e","r","s","e","y">>,
     link |-> "l6", posted_date |-> "2024-01-06",
     experience |-> <<"E","x","p","e","r","i","e","n","c","e"," ","n","o","t"," ","s","p","e","c","i","f","i","e","d">>,
     preference |-> "Remote", similarity |-> 0]>>

\* resume_data.skills
SkillLists == {
    <<>>,
    <<<<"P","y","t","h","o","n">>, <<"s","q","l">>, <<"l","e","a","d","e","r","s","h","i","p">>>>,
    <<<<"j","a","v","a">>, <<"s","a","l","e","s">>, <<"e","x","c","e","l">>>>}

\* location_pref
LocationPrefs == {
    <<"N","e","w"," ","Y","o","r","k">>,
    <<"J","e","r","s","e","y"," ","C","i","t","y">>,
    <<"B","o","s","t","o","n"," ","M","A">>}

\* the collections of at most n postings
JobLists(n) ==
    UNION {[1..m -> Range(Postings)] : m \in 0..n}

(***************************************************************************)
(* The values of the operators above on the inputs of the model, computed  *)
(* once: a scoring step looks its posting up instead of scanning the text  *)
(* again in every state.                                                   *)
(***************************************************************************)
\* a posting as it was built, whatever similarity it holds now
Built(job) == [job EXCEPT !.similarity = 0]

\* (f @@ <<>> is f; it makes TLC hold f as a table of values)
JobTextOf == [p \in Range(Postings) |-> JobText(p)] @@ <<>>

SkillScoreOf ==
    [sp \in SkillLists \X Range(Postings) |->
        calculate_skill_match_score(sp[1], JobTextOf[sp[2]])] @@ <<>>

ExpScoreOf ==
    [ep \in (0..MaxExp) \X Range(Postings) |->
        calculate_experience_match(ep[1], JobTextOf[ep[2]])] @@ <<>>

LocationScoreOf ==
    [lp \in LocationPrefs \X Range(Postings) |->
        calculate_location_match(lp[1], lp[2].location)] @@ <<>>

AnalysisOf ==
    [sp \in SkillLists \X Range(Postings) |->
        Analyse(JoinSpace(sp[1]), JobTextOf[sp[2]])] @@ <<>>

(***************************************************************************)
(* Python's sorted(jobs, key=lambda x: x.similarity, reverse=True)         *)
(***************************************************************************)
\* list with x put behind every element whose key is not smaller
RECURSIVE InsertDesc(_, _, _)
InsertDesc(list, x, key) ==
    IF list = <<>> THEN <<x>>
    ELSE IF key[list[1]] >= key[x]
         THEN <<list[1]>> \o InsertDesc(Tail(list), x, key)
         ELSE <<x>> \o list

\* list with x put in front of the first element whose key is not greater
RECURSIVE InsertDescFront(_, _, _)
InsertDescFront(list, x, key) ==
    IF list = <<>> THEN <<x>>
    ELSE IF key[list[1]] > key[x]
         THEN <<list[1]>> \o InsertDescFront(Tail(list), x, key)
         ELSE <<x>> \o list

\* faulty variant: a descending sort that is not stable (equal keys come
\* out in reverse)
RECURSIVE SortedDescUnstable(_, _)
SortedDescUnstable(list, key) ==
    IF list = <<>> THEN <<>>
    ELSE InsertDescFront(
            SortedDescUnstable(SubSeq(list, 1, Len(list) - 1), key),
            list[Len(list)], key)

\* the stable descending sort, written out once more for the variant below
RECURSIVE SortedDescStable(_, _)
SortedDescStable(list, key) ==
    IF list = <<>> THEN <<>>
    ELSE InsertDesc(SortedDescStable(SubSeq(list, 1, Len(list) - 1), key),
                    list[Len(list)], key)

\* faulty variant: the ranking is cut to its two best entries
SortedDescTop(list, key) ==
    SubSeq(SortedDescStable(list, key), 1, Min(2, Len(list)))

\* the stable sort by descending key: elements are inserted in list order
RECURSIVE SortedDesc(_, _)
SortedDesc(list, key) ==
    IF list = <<>> THEN <<>>
    ELSE InsertDesc(SortedDesc(SubSeq(list, 1, Len(list) - 1), key),
                    list[Len(list)], key)

(***************************************************************************)
(* The state of one match_jobs call on one JobMatcher.                     *)
(***************************************************************************)
VARIABLES
    resume_data,      \* resume_data (its skills)
    experience_years, \* the argument user_experience
    location_pref,    \* location_pref
    heap,             \* the JobPosting objects, by reference
    jobs,             \* the caller's list: references into heap
    vectorizer,       \* self.vectorizer, shared by every scoring call
    pc,               \* "loop", "done" (match_jobs); "par" (parallel calls)
    i,                \* the index of the posting the for loop scores next
    st,               \* per posting: "start", "fitted", "done"
    locals,           \* per posting: the sub-scores its scoring call computed
    result,           \* the list match_jobs returns
    heap0,            \* the objects as they were when match_jobs was called
    overlapped        \* per posting: another call refitted self.vectorizer
                      \* between this call's fit and its transform

\* The state of preprocess_text, for the specification of the normalizer on
\* its own.
VARIABLES
    raw_text,         \* the text handed to the first call of preprocess_text
    work_text,        \* the local variable text of the call under way
    applied,          \* the entries of replacements the for loop has done
    outputs           \* the texts the calls so far returned

textvars == <<raw_text, work_text, applied, outputs>>

vars == <<resume_data, experience_years, location_pref, heap, jobs,
          vectorizer, pc, i, st, locals, result, heap0, overlapped, textvars>>

\* no call of preprocess_text is looked at
NoText ==
    /\ raw_text = <<>>
    /\ work_text = <<>>
    /\ applied = {}
    /\ outputs = <<>>

NoLocals == [skill_score |-> -1, exp_score |-> -1, location_score |-> -1,
             content_score |-> -1]

InitInputs(n) ==
    /\ resume_data \in [skills : SkillLists]
    /\ experience_years \in 0..MaxExp
    /\ location_pref \in LocationPrefs
    /\ heap \in JobLists(n)
    /\ jobs = [k \in DOMAIN heap |-> k]
    /\ heap0 = heap
    /\ vectorizer = Unfitted
    /\ i = 1
    /\ st = [k \in DOMAIN heap |-> "start"]
    /\ locals = [k \in DOMAIN heap |-> NoLocals]
    /\ overlapped = [k \in DOMAIN heap |-> FALSE]
    /\ result = <<>>
    /\ NoText

Init ==
    /\ InitInputs(MaxJobs)
    /\ pc = "loop"

\* lines 352-360: job_text and the three sub-scores that do not use the
\* vectorizer
SubScores(job) ==
    [skill_score    |-> SkillScoreOf[<<resume_data.skills, Built(job)>>],
     exp_score      |-> ExpScoreOf[<<experience_years, Built(job)>>],
     location_score |-> LocationScoreOf[<<location_pref, Built(job)>>],
     content_score  |-> -1]

\* lines 371-386: job.similarity from the sub-scores
Similarity(l) ==
    FinalScore(l.skill_score, l.exp_score, l.location_score, l.content_score)

\* one iteration of the for loop of match_jobs (lines 351-386)
ScoreJob ==
    /\ pc = "loop"
    /\ i <= Len(jobs)
    /\ LET job == heap[jobs[i]]
           X   == AnalysisOf[<<resume_data.skills, Built(job)>>]
       IN  \E v \in VectorizerFit(vectorizer, X) :
           \E c \in VectorizerTransform(v, X) :
             LET l == [SubScores(job) EXCEPT !.content_score = ContentScore(c)]
             IN  /\ vectorizer' = v
                 /\ locals' = [locals EXCEPT ![i] = l]
                 /\ heap' = [heap EXCEPT ![jobs[i]].similarity = Similarity(l)]
    /\ st' = [st EXCEPT ![i] = "done"]
    /\ i' = i + 1
    /\ UNCHANGED textvars
    /\ UNCHANGED <<resume_data, experience_years, location_pref, jobs, pc,
                   result, heap0, overlapped>>

\* the key function of the sort: x.similarity
SimilarityKey == [o \in DOMAIN heap |-> heap[o].similarity]

\* faulty variant: the caller's list is sorted in place (jobs.sort(...))
CallerListAfterSort(list, key) == SortedDesc(list, key)

\* sorted() builds a new list: the list it was given stays as it is
CallerListAfterSorted(list, key) == list

\* line 388: the loop is over, return sorted(...)
Return ==
    /\ pc = "loop"
    /\ i > Len(jobs)
    /\ result' = SortedDesc(jobs, SimilarityKey)
    /\ jobs' = CallerListAfterSorted(jobs, SimilarityKey)
    /\ pc' = "done"
    /\ UNCHANGED textvars
    /\ UNCHANGED <<resume_data, experience_years, location_pref, heap,
                   vectorizer, i, st, locals, heap0, overlapped>>

Next == ScoreJob \/ Return

Spec == Init /\ [][Next]_vars

(***************************************************************************)
(* Scoring calls (the body of the for loop) run in parallel on one         *)
(* JobMatcher, one call per posting.  A call is two steps, as              *)
(* fit_transform is: it fits self.vectorizer, then it transforms with what *)
(* self.vectorizer holds at that time.                                     *)
(***************************************************************************)
\* most postings scored in parallel
MaxCalls == 2

InitPar ==
    /\ InitInputs(MaxCalls)
    /\ pc = "par"

\* lines 352-365, up to the fit of self.vectorizer
FitCall(k) ==
    /\ pc = "par"
    /\ st[k] = "start"
    /\ LET job == heap[jobs[k]]
           X   == AnalysisOf[<<resume_data.skills, Built(job)>>]
       IN  /\ vectorizer' \in VectorizerFit(vectorizer, X)
           /\ locals' = [locals EXCEPT ![k] = SubScores(job)]
    /\ overlapped' = [m \in DOMAIN overlapped |->
                         overlapped[m] \/ (m # k /\ st[m] = "fitted")]
    /\ st' = [st EXCEPT ![k] = "fitted"]
    /\ UNCHANGED textvars
    /\ UNCHANGED <<resume_data, experience_years, location_pref, heap, jobs,
                   pc, i, result, heap0>>

\* lines 365-386, from the transform on
TransformCall(k) ==
    /\ pc = "par"
    /\ st[k] = "fitted"
    /\ LET job == heap[jobs[k]]
           X   == AnalysisOf[<<resume_data.skills, Built(job)>>]
       IN  \E c \in VectorizerTransform(vectorizer, X) :
             LET l == [locals[k] EXCEPT !.content_score = ContentScore(c)]
             IN  /\ locals' = [locals EXCEPT ![k] = l]
                 /\ heap' = [heap EXCEPT ![jobs[k]].similarity = Similarity(l)]
    /\ st' = [st EXCEPT ![k] = "done"]
    /\ UNCHANGED textvars
    /\ UNCHANGED <<resume_data, experience_years, location_pref, jobs,
                   vectorizer, pc, i, result, heap0, overlapped>>

NextPar == \E k \in DOMAIN jobs : FitCall(k) \/ TransformCall(k)

SpecPar == InitPar /\ [][NextPar]_vars

(***************************************************************************)
(* preprocess_text on its own: calls on a text and on the text the call    *)
(* before returned.  The for loop over replacements.items() is one step    *)
(* per entry; the order of the entries is left open, the order of the dict *)
(* (1, 2, ..., 7) being one of the orders.                                 *)
(***************************************************************************)
\* most calls of preprocess_text in a row, each on the output of the last
MaxPasses == 2

\* the texts handed to preprocess_text
Texts == {
    <<>>,
    <<"S","r","."," ","D","e","v">>,
    <<"J","r","."," ","E","n","g",","," ","2"," ","y","r","s"," ","e","x","p">>,
    <<"M","g","r">>,
    <<"5","+"," ","Y","r","s">>,
    <<"1"," ","y","r"," ","o","f"," ","e","x","p","e","r","i","e","n","c","e">>,
    <<"s","e","n","i","o","r"," "," ","d","e","v","e","l","o","p","e","r">>,
    <<"d","e","v","o","p","s"," ","e","n","g">>,
    <<"R","&","D"," ","m","g","r",".">>,
    <<"j","u","n","i","o","r","\t","d","e","v">>,
    <<"C","+","+"," ","D","e","v","/","E","n","g">>,
    <<"e","n","g","i","n","e","e","r","i","n","g"," ","m","a","n","a","g","e","r">>,
    <<"s","r",".","d","e","v">>,
    <<"y","r","s","_","e","x","p">>,
    <<"Y","e","a","r","s">>}

InitText ==
    /\ raw_text \in Texts
    /\ work_text = raw_text
    /\ applied = {}
    /\ outputs = <<>>
    /\ pc = "strip"
    /\ resume_data = [skills |-> <<>>]
    /\ experience_years = 0
    /\ location_pref = <<>>
    /\ heap = <<>>
    /\ jobs = <<>>
    /\ heap0 = <<>>
    /\ vectorizer = Unfitted
    /\ i = 1
    /\ st = <<>>
    /\ locals = <<>>
    /\ overlapped = <<>>
    /\ result = <<>>

matchvars == <<resume_data, experience_years, location_pref, heap, jobs,
               vectorizer, i, st, locals, result, heap0, overlapped>>

\* line 251: lowercase, special characters become spaces
Strip ==
    /\ pc = "strip"
    /\ work_text' = StripSpecial(lower(work_text))
    /\ pc' = "replace"
    /\ UNCHANGED <<raw_text, applied, outputs>>
    /\ UNCHANGED matchvars

\* lines 264-265: one iteration of the for loop, for entry k
Replace(k) ==
    /\ pc = "replace"
    /\ k \notin applied
    /\ work_text' = SubWord(replacements[k].alts, replacements[k].rep,
                            work_text)
    /\ applied' = applied \cup {k}
    /\ UNCHANGED <<raw_text, outputs, pc>>
    /\ UNCHANGED matchvars

\* line 267: return text
ReturnText ==
    /\ pc = "replace"
    /\ applied = DOMAIN replacements
    /\ outputs' = Append(outputs, work_text)
    /\ pc' = "returned"
    /\ UNCHANGED <<raw_text, work_text, applied>>
    /\ UNCHANGED matchvars

\* line 248: preprocess_text is called on the text the last call returned
CallAgain ==
    /\ pc = "returned"
    /\ Len(outputs) < MaxPasses
    /\ work_text' = outputs[Len(outputs)]
    /\ applied' = {}
    /\ pc' = "strip"
    /\ UNCHANGED <<raw_text, outputs>>
    /\ UNCHANGED matchvars

NextText ==
    \/ Strip
    \/ \E k \in DOMAIN replacements : Replace(k)
    \/ ReturnText
    \/ CallAgain

SpecText == InitText /\ [][NextText]_vars

(***************************************************************************)
(* Properties of match_jobs.                                               *)
(***************************************************************************)
\* the postings (indices of the caller's list) whose scoring is over
Scored == {k \in DOMAIN st : st[k] = "done"}

\* the posting object at index k of the caller's list
JobAt(k) == heap[jobs[k]]

\* where the caller's list holds object o
InputIndex(o) == CHOOSE k \in DOMAIN jobs : jobs[k] = o

\* C1: the final score match_jobs assigns to a posting lies in [0, 1],
\* whatever the profile, the posting, the candidate experience and the
\* preferred location are, and so does each of the four sub-scores
ScoreInUnitInterval ==
    \A k \in Scored :
        /\ JobAt(k).similarity \in 0..One
        /\ locals[k].skill_score \in 0..Unit
        /\ locals[k].exp_score \in 0..Unit
        /\ locals[k].location_score \in 0..Unit
        /\ locals[k].content_score \in 0..Unit

\* C1 witness: a posting was scored and all four of its sub-scores are high
ScoreInUnitIntervalWitness ==
    \E k \in Scored :
        /\ JobAt(k).similarity > 80 * Unit
        /\ locals[k].exp_score = Unit
        /\ locals[k].location_score = Unit
        /\ locals[k].content_score > 0
        /\ locals[k].skill_score > 0

\* C2: the ranking is stable: of two postings with equal final scores, the
\* one that comes first in the input comes first in the returned list
RankingStable ==
    pc = "done" =>
        \A a, b \in DOMAIN result :
            (/\ a < b
             /\ heap[result[a]].similarity = heap[result[b]].similarity)
            => InputIndex(result[a]) < InputIndex(result[b])

\* C2 witness: match_jobs returned a ranking that moved a posting and holds
\* two postings with equal scores that differ in their posted_date only
RankingStableWitness ==
    /\ pc = "done"
    /\ result # jobs
    /\ \E a, b \in DOMAIN result :
        /\ a < b
        /\ heap[result[a]].similarity = heap[result[b]].similarity
        /\ heap[result[a]].posted_date # heap[result[b]].posted_date
        /\ [heap[result[a]] EXCEPT !.posted_date = ""]
           = [heap[result[b]] EXCEPT !.posted_date = ""]

\* C3: the returned list is a permutation of the input collection in
\* non-increasing order of final score: every input posting is in it
\* exactly once, nothing is added, and an empty input gives an empty list
RankingIsPermutation ==
    pc = "done" =>
        /\ Len(result) = Len(jobs)
        /\ \A k \in DOMAIN jobs :
            Cardinality({r \in DOMAIN result : result[r] = jobs[k]}) = 1
        /\ \A r \in DOMAIN result : result[r] \in Range(jobs)
        /\ \A r \in 1..(Len(result) - 1) :
            heap[result[r]].similarity >= heap[result[r + 1]].similarity
        /\ (jobs = <<>> => result = <<>>)

\* C3 witness: three postings with three different scores came back in an
\* order that is not the input order
RankingIsPermutationWitness ==
    /\ pc = "done"
    /\ Len(result) >= 3
    /\ result # jobs
    /\ heap[result[1]].similarity > heap[result[2]].similarity
    /\ heap[result[2]].similarity > heap[result[3]].similarity

\* the level words a text mentions
Mentions(text) ==
    [senior |-> Contains(Word_senior, lower(text)),
     mid    |-> Contains(Word_mid, lower(text)),
     junior |-> Contains(Word_junior, lower(text)),
     entry  |-> Contains(Word_entry, lower(text))]

\* the level words in the declared-experience text of a posting
DeclaredMentions == [p \in Range(Postings) |-> Mentions(p.experience)] @@ <<>>

\* the level words in the job text of a posting
TextMentions == [p \in Range(Postings) |-> Mentions(JobTextOf[p])] @@ <<>>

\* the year count the job text of a posting states first ("3 years",
\* "5+ years"), -1 when it states none
StatedYears ==
    [p \in Range(Postings) |-> SearchYears(1, lower(JobTextOf[p]))] @@ <<>>

\* the sub-score the threshold table gives experience e against mentions m
ThresholdScore(e, m) ==
    IF m.senior THEN (IF e >= 5 THEN (8 * Unit) \div 10 ELSE (4 * Unit) \div 10)
    ELSE IF m.mid THEN (IF e >= 3 THEN (7 * Unit) \div 10 ELSE (5 * Unit) \div 10)
    ELSE IF m.junior \/ m.entry
    THEN (IF e <= 2 THEN (6 * Unit) \div 10 ELSE (4 * Unit) \div 10)
    ELSE (5 * Unit) \div 10

\* C4, as claimed: the experience sub-score follows the threshold table on
\* the declared-experience text: senior 0.8 from 5 years on, else 0.4; mid
\* 0.7 from 3 years on, else 0.5; junior or entry 0.6 up to 2 years, else
\* 0.4; 0.5 in every other case
ExperienceThresholdTable ==
    \A k \in Scored :
        locals[k].exp_score
        = ThresholdScore(experience_years, DeclaredMentions[Built(JobAt(k))])

\* the years a posting requires: its stated year count, else 5, 3 or 0 by
\* the level its job text mentions; -1 when it has neither
RequiredYears(p) ==
    IF StatedYears[p] # -1 THEN StatedYears[p]
    ELSE IF TextMentions[p].senior THEN 5
    ELSE IF TextMentions[p].mid THEN 3
    ELSE IF TextMentions[p].junior \/ TextMentions[p].entry THEN 0
    ELSE -1

\* the sub-score of a candidate d years off what the posting requires
DistanceScore(d) ==
    IF d = 0 THEN Unit
    ELSE IF d <= 2 THEN (8 * Unit) \div 10
    ELSE IF d <= 4 THEN (6 * Unit) \div 10
    ELSE (4 * Unit) \div 10

\* C4, amended: the experience sub-score follows the distance between the
\* candidate's experience and the years the posting requires (the year
\* count its job text states first, else senior 5, mid 3, junior or entry
\* 0): 1.0 at distance 0, 0.8 up to 2, 0.6 up to 4, 0.4 beyond; 0.5 when
\* the job text has neither a year count nor a level
ExperienceByDistance ==
    \A k \in Scored :
        LET required == RequiredYears(Built(JobAt(k)))
        IN  locals[k].exp_score
            = IF required = -1 THEN (5 * Unit) \div 10
              ELSE DistanceScore(IF experience_years >= required
                                 THEN experience_years - required
                                 ELSE required - experience_years)

\* C4 witness: a posting that names the senior level and states 3 years
\* was scored for a candidate with exactly 3 years
ExperienceByDistanceWitness ==
    \E k \in Scored :
        /\ TextMentions[Built(JobAt(k))].senior
        /\ StatedYears[Built(JobAt(k))] = 3
        /\ experience_years = 3
        /\ locals[k].exp_score = Unit

\* C5, as claimed: against a "senior" posting a candidate with 5 years or
\* more never scores lower on experience than a candidate with fewer than 5
SeniorMonotone ==
    \A k \in Scored :
        (/\ DeclaredMentions[Built(JobAt(k))].senior
         /\ experience_years >= 5)
        => \A b \in 0..4 :
              locals[k].exp_score >= ExpScoreOf[<<b, Built(JobAt(k))>>]

\* C5, amended: against a posting whose job text mentions senior and
\* states no year count, a candidate with a >= 5 years never scores lower
\* on experience than a candidate with b < 5 years who is at least as far
\* from 5 (a - 5 <= 5 - b)
SeniorMonotoneNear ==
    \A k \in Scored :
        (/\ TextMentions[Built(JobAt(k))].senior
         /\ StatedYears[Built(JobAt(k))] = -1
         /\ experience_years >= 5)
        => \A b \in 0..4 :
              experience_years - 5 <= 5 - b
              => locals[k].exp_score >= ExpScoreOf[<<b, Built(JobAt(k))>>]

\* C5 witness: a senior posting without a year count was scored for a
\* candidate 3 years above 5, who scores as a candidate 3 years below and
\* lower than a candidate 1 year below
SeniorMonotoneNearWitness ==
    \E k \in Scored :
        /\ TextMentions[Built(JobAt(k))].senior
        /\ StatedYears[Built(JobAt(k))] = -1
        /\ experience_years = 8
        /\ locals[k].exp_score = ExpScoreOf[<<2, Built(JobAt(k))>>]
        /\ locals[k].exp_score < ExpScoreOf[<<4, Built(JobAt(k))>>]

\* how a preferred location and a job location relate, case-insensitively
LocationFacts ==
    [lp \in LocationPrefs \X Range(Postings) |->
        [substring |-> \/ Contains(lower(lp[1]), lower(lp[2].location))
                       \/ Contains(lower(lp[2].location), lower(lp[1])),
         shared    |-> SplitSet(lower(lp[1]))
                       \cap SplitSet(lower(lp[2].location)) # {},
         remote    |-> Contains(Word_remote, lower(lp[2].location))]] @@ <<>>

\* C6: the location sub-score is 1.0 if one location is a substring of the
\* other, else 0.8 if they share a whitespace-delimited token, else 0.7 if
\* the job location contains "remote", else exactly 0.3, compared
\* case-insensitively; it is never 0
LocationCascade ==
    \A k \in Scored :
        LET f == LocationFacts[<<location_pref, Built(JobAt(k))>>]
        IN  /\ locals[k].location_score
               = IF f.substring THEN Unit
                 ELSE IF f.shared THEN (8 * Unit) \div 10
                 ELSE IF f.remote THEN (7 * Unit) \div 10
                 ELSE (3 * Unit) \div 10
            /\ locals[k].location_score # 0
            /\ (~f.substring /\ ~f.shared /\ ~f.remote
                => locals[k].location_score = (3 * Unit) \div 10)

\* C6 witness: a remote posting that shares a token with the preferred
\* location, neither being a substring of the other, was scored 0.8
LocationCascadeWitness ==
    \E k \in Scored :
        LET f == LocationFacts[<<location_pref, Built(JobAt(k))>>]
        IN  /\ ~f.substring
            /\ f.shared
            /\ f.remote
            /\ locals[k].location_score = (8 * Unit) \div 10

\* per category, how many skills of a skill list are in the vocabulary and
\* how many of these are substrings of the lowercased job text of a posting
SkillFacts ==
    [sp \in SkillLists \X Range(Postings) |->
        [c \in Range(Categories) |->
            [relevant |-> Cardinality(
                 {s \in Range(sp[1]) : lower(s) \in skill_categories[c]}),
             matched  |-> Cardinality(
                 {s \in Range(sp[1]) :
                     /\ lower(s) \in skill_categories[c]
                     /\ Contains(lower(s), lower(JobTextOf[sp[2]]))})]]] @@ <<>>

\* C7: the skill score is matchedWeight / totalWeight over the categories
\* in which the candidate has a vocabulary skill, each adding its weight to
\* totalWeight and (its skills found in the job text / its skills) * weight
\* to matchedWeight; it lies in [0, 1] and is 0 when the candidate has no
\* vocabulary skill (the quotient is taken to three places, rounded down)
SkillScoreIsWeightedShare ==
    \A k \in Scored :
        LET f    == SkillFacts[<<resume_data.skills, Built(JobAt(k))>>]
            cats == {c \in Range(Categories) : f[c].relevant > 0}
            den  == Product([c \in cats |-> f[c].relevant], cats)
            totalWeight   == Sum([c \in cats |-> skill_weights[c] * den], cats)
            matchedWeight ==
                Sum([c \in cats |-> f[c].matched * skill_weights[c]
                                    * (den \div f[c].relevant)], cats)
            score == locals[k].skill_score
        IN  /\ score \in 0..Unit
            /\ cats = {} => score = 0
            /\ resume_data.skills = <<>> => score = 0
            /\ cats # {} =>
                /\ score * totalWeight <= matchedWeight * Unit
                /\ matchedWeight * Unit < (score + 1) * totalWeight
            /\ (cats # {} /\ \A c \in cats : f[c].matched = f[c].relevant)
                => score = Unit

\* C7 witness: a candidate with skills in two categories, some of them in
\* the job text and some not, was scored strictly between 0 and 1
SkillScoreIsWeightedShareWitness ==
    \E k \in Scored :
        LET f == SkillFacts[<<resume_data.skills, Built(JobAt(k))>>]
        IN  /\ Cardinality({c \in Range(Categories) : f[c].relevant > 0}) = 2
            /\ \E c \in Range(Categories) : f[c].matched = 2
            /\ \E c \in Range(Categories) :
                  f[c].relevant > 0 /\ f[c].matched = 0
            /\ locals[k].skill_score > 0
            /\ locals[k].skill_score < Unit

\* C8: the final score is min(1.0, 0.4 * skill + 0.25 * experience
\* + 0.15 * location + 0.2 * content): the weights are fixed and sum to
\* 1.0, and no base score or floor is added
FinalIsWeightedSum ==
    /\ weight_skill + weight_experience + weight_location + weight_content
       = 100
    /\ \A k \in Scored :
        LET sum == 40 * locals[k].skill_score + 25 * locals[k].exp_score
                   + 15 * locals[k].location_score
                   + 20 * locals[k].content_score
        IN  JobAt(k).similarity = IF sum > 100 * Unit THEN 100 * Unit ELSE sum

\* C8 witness: a posting was scored below 0.25, from a skill score and a
\* content score of 0
FinalIsWeightedSumWitness ==
    \E k \in Scored :
        /\ locals[k].skill_score = 0
        /\ locals[k].content_score = 0
        /\ JobAt(k).similarity > 0
        /\ JobAt(k).similarity < 25 * Unit

\* C9, as claimed: when match_jobs has returned, every field of every
\* input posting, similarity included, is as it was before the call and
\* the caller's list is in its original order
CallerDataUnchanged ==
    pc = "done" =>
        /\ heap = heap0
        /\ jobs = [k \in DOMAIN heap0 |-> k]

\* C9, amended: match_jobs changes nothing of the caller's data but the
\* similarity field of the input postings, which it sets to the posting's
\* final score; the caller's list keeps its order, and the returned list
\* holds the input objects themselves
OnlySimilarityWritten ==
    /\ jobs = [k \in DOMAIN heap0 |-> k]
    /\ DOMAIN heap = DOMAIN heap0
    /\ \A o \in DOMAIN heap :
        [heap[o] EXCEPT !.similarity = heap0[o].similarity] = heap0[o]
    /\ \A k \in Scored : JobAt(k).similarity = Similarity(locals[k])
    /\ pc = "done" => \A r \in DOMAIN result : result[r] \in DOMAIN heap0

\* C9 witness: match_jobs returned a reordered list and the postings of the
\* caller hold new similarity values
OnlySimilarityWrittenWitness ==
    /\ pc = "done"
    /\ result # jobs
    /\ \A o \in DOMAIN heap : heap[o].similarity # heap0[o].similarity
    /\ Len(jobs) >= 2

\* the final score of a posting scored on its own by a new JobMatcher
ScoreAlone ==
    [in \in SkillLists \X (0..MaxExp) \X LocationPrefs \X Range(Postings) |->
        FinalScore(SkillScoreOf[<<in[1], in[4]>>],
                   ExpScoreOf[<<in[2], in[4]>>],
                   LocationScoreOf[<<in[3], in[4]>>],
                   IF AnalysisOf[<<in[1], in[4]>>].vocabulary = {} THEN 0
                   ELSE AnalysisOf[<<in[1], in[4]>>].cosine)] @@ <<>>

\* the posting at index k holds the score it gets on its own
HoldsScoreAlone(k) ==
    JobAt(k).similarity
    = ScoreAlone[<<resume_data.skills, experience_years, location_pref,
                   Built(JobAt(k))>>]

SimilarityFails(k) ==
    AnalysisOf[<<resume_data.skills, Built(JobAt(k))>>].vocabulary = {}

\* C11: a failure of the content-similarity computation for one posting is
\* not propagated: the posting's content sub-score is 0, its final score is
\* computed from the other three sub-scores, and every other posting of the
\* collection is still scored (with its own content score) and returned
SimilarityFailureContained ==
    /\ \A k \in Scored :
        IF SimilarityFails(k)
        THEN /\ locals[k].content_score = 0
             /\ JobAt(k).similarity
                = Min(One, 40 * locals[k].skill_score
                           + 25 * locals[k].exp_score
                           + 15 * locals[k].location_score)
        ELSE locals[k].content_score
             = AnalysisOf[<<resume_data.skills, Built(JobAt(k))>>].cosine
    /\ pc = "loop" => Scored = 1..(i - 1)
    /\ pc = "done" =>
        /\ Scored = DOMAIN jobs
        /\ Range(result) = Range(jobs)
        /\ Len(result) = Len(jobs)

\* C11 witness: match_jobs returned all postings of a collection whose
\* first posting's similarity computation failed and whose later posting
\* has a content score above 0
SimilarityFailureContainedWitness ==
    /\ pc = "done"
    /\ Len(jobs) >= 2
    /\ SimilarityFails(1)
    /\ JobAt(1).similarity > 0
    /\ \E k \in Scored : k > 1 /\ locals[k].content_score > 0
    /\ Len(result) = Len(jobs)

(***************************************************************************)
(* Properties of preprocess_text.                                          *)
(***************************************************************************)
\* the synonyms the normalizer is to fold, each with its canonical term
Synonyms == <<
    [token |-> <<"y","r","s">>, canon |-> <<"y","e","a","r","s">>],
    [token |-> <<"s","r",".">>, canon |-> <<"s","e","n","i","o","r">>],
    [token |-> <<"j","r",".">>, canon |-> <<"j","u","n","i","o","r">>],
    [token |-> <<"d","e","v">>, canon |-> <<"d","e","v","e","l","o","p","e","r">>],
    [token |-> <<"e","n","g">>, canon |-> <<"e","n","g","i","n","e","e","r">>],
    [token |-> <<"m","g","r">>, canon |-> <<"m","a","n","a","g","e","r">>]>>

\* C12: normalization folds every listed synonym: where yrs, sr., jr., dev,
\* eng or mgr stands as a whole word of the input, the output of
\* preprocess_text has years, senior, junior, developer, engineer or
\* manager in its place; the output has only characters of [a-z0-9 ], and
\* its whitespace is collapsed
SynonymsFolded ==
    (pc = "returned" /\ Len(outputs) = 1) =>
        /\ \A n \in DOMAIN Synonyms :
            Synonyms[n].token \in SplitSet(lower(raw_text))
            => /\ Synonyms[n].canon \in SplitSet(outputs[1])
               /\ Synonyms[n].token \notin SplitSet(outputs[1])
        /\ \A k \in DOMAIN outputs[1] :
            \/ IsLower(outputs[1][k])
            \/ IsDigit(outputs[1][k])
            \/ outputs[1][k] = " "
        /\ \A k \in 1..(Len(outputs[1]) - 1) :
            ~(outputs[1][k] = " " /\ outputs[1][k + 1] = " ")

\* the text the call that returned last was given
LastInput ==
    IF Len(outputs) = 1 THEN raw_text ELSE outputs[Len(outputs) - 1]

\* C13: normalization is idempotent and total: preprocess_text of an
\* output of preprocess_text is that output, whatever order the
\* substitutions are applied in (any order gives what the order of the
\* source gives); a call never fails, and the empty string gives the empty
\* string
NormalizationIdempotent ==
    /\ pc = "returned" =>
        /\ outputs[Len(outputs)] = preprocess_text(LastInput)
        /\ \A n \in 2..Len(outputs) : outputs[n] = outputs[1]
        /\ raw_text = <<>> => outputs[1] = <<>>
    /\ pc \in {"strip", "replace"} => ENABLED NextText

\* C13 witness: a text in which synonyms were folded was normalized a
\* second time and came back as it was
NormalizationIdempotentWitness ==
    /\ pc = "returned"
    /\ Len(outputs) = 2
    /\ outputs[1] # StripSpecial(lower(raw_text))
    /\ Synonyms[4].canon \in SplitSet(outputs[1])
    /\ outputs[2] = outputs[1]

====
